---- MODULE Spec2Model ----
(***************************************************************************)
(* Turn controller of the task-oriented dialogue strategy                  *)
(* (strategies/tod.py, TaskOrientedDialogueStrategy).                      *)
(*                                                                         *)
(* Python strings that the code parses (the utterance, the validation      *)
(* reply, field names, field values) are sequences of one-character        *)
(* strings, so that strip/lower/startswith/find/split/in are computed.     *)
(* Questions are never parsed and stay atomic strings.  An Optional[x] is  *)
(* None == <<>> or Some(x) == <<x>>.                                       *)
(***************************************************************************)
EXTENDS Integers, Sequences, FiniteSets, TLC

VARIABLES
    dialogue_state,   \* self.dialogue_state : None or Some(DialogueState)
    collected_data,   \* self.collected_data : field name -> value
    storage,          \* session.storage under params.storage_key
    query,            \* params.query of the turn
    stored_before,    \* what the store held when the turn began
    start,            \* the dialogue state the turn worked from (tod.py:153)
    finalized,        \* the stored record has been deleted at a completion (tod.py:280)
    events,           \* what the turn did, in program order
    outcome           \* how the turn ended; NoTurn between turns

vars ==
    <<dialogue_state, collected_data, storage, finalized, query, stored_before, start,
      events, outcome>>

\* ------------------------------------------------------------------ bounds
NumFields == 2

\* ----------------------------------------------------------- Python values
None == <<>>
Some(x) == <<x>>

\* bool(v) of an Optional[str]: None and "" are falsy
Truthy(v) == v # None /\ v[1] # <<>>

EmptyDict == [k \in {} |-> None]

\* d[k] = v
DictSet(d, k, v) == [x \in (DOMAIN d) \cup {k} |-> IF x = k THEN v ELSE d[x]]

\* ----------------------------------------------------------- str methods
Whitespace == {" ", "\t", "\n"}

UpperCase == <<"A", "B", "C", "D", "E", "F", "G", "H", "I", "J", "K", "L", "M",
               "N", "O", "P", "Q", "R", "S", "T", "U", "V", "W", "X", "Y", "Z">>

LowerCase == <<"a", "b", "c", "d", "e", "f", "g", "h", "i", "j", "k", "l", "m",
               "n", "o", "p", "q", "r", "s", "t", "u", "v", "w", "x", "y", "z">>

\* the lower-case letter of every upper-case letter
LowerOf ==
    [c \in {UpperCase[i] : i \in 1..26} |-> LowerCase[CHOOSE i \in 1..26 : UpperCase[i] = c]]

LowerChar(c) == IF c \in DOMAIN LowerOf THEN LowerOf[c] ELSE c

lower(s) == [i \in 1..Len(s) |-> LowerChar(s[i])]

RECURSIVE lstrip(_)
lstrip(s) == IF s # <<>> /\ Head(s) \in Whitespace THEN lstrip(Tail(s)) ELSE s

RECURSIVE rstrip(_)
rstrip(s) ==
    IF s # <<>> /\ s[Len(s)] \in Whitespace
    THEN rstrip(SubSeq(s, 1, Len(s) - 1))
    ELSE s

strip(s) == rstrip(lstrip(s))

startswith(s, p) == Len(p) <= Len(s) /\ SubSeq(s, 1, Len(p)) = p

\* `sub in s`
contains(s, sub) ==
    \E i \in 0..(Len(s) - Len(sub)) : SubSeq(s, i + 1, i + Len(sub)) = sub

\* s.find(c) for a one-character c, 0-based, -1 when absent
find(s, c) ==
    IF \E i \in 1..Len(s) : s[i] = c
    THEN (CHOOSE i \in 1..Len(s) : s[i] = c /\ \A j \in 1..(i - 1) : s[j] # c) - 1
    ELSE -1

\* s.split(None, 1)
split1(s) ==
    LET t == lstrip(s)
        ws == {i \in 1..Len(t) : t[i] \in Whitespace}
        k == IF ws = {} THEN Len(t) + 1
             ELSE CHOOSE i \in ws : \A j \in ws : i <= j
        rest == lstrip(SubSeq(t, k, Len(t)))
    IN  IF t = <<>> THEN <<>>
        ELSE IF rest = <<>> THEN <<SubSeq(t, 1, k - 1)>>
        ELSE <<SubSeq(t, 1, k - 1), rest>>

\* s.split("INVALID:", 1)[1] for an s that starts with "INVALID:"
AfterPrefix(s, p) == SubSeq(s, Len(p) + 1, Len(s))

\* ------------------------------------------------- literals of the program
\* tod.py:159
positive_markers == {
    <<"y", "e", "s">>, <<"y">>, <<"o", "k">>, <<"o", "k", "a", "y">>, <<"c", "o", "n", "f",
        "i", "r", "m">>, <<"c", "o", "n", "f", "i", "r", "m", "e", "d">>, <<"c", "o", "r",
        "r", "e", "c", "t">>}

\* tod.py:160
negative_markers == {
    <<"n", "o">>, <<"n">>, <<"c", "h", "a", "n", "g", "e">>, <<"e", "d", "i", "t">>, <<"m",
        "o", "d", "i", "f", "y">>, <<"i", "n", "c", "o", "r", "r", "e", "c", "t">>, <<"n",
        "o", "t", " ", "c", "o", "r", "r", "e", "c", "t">>, <<"w", "r", "o", "n", "g">>}

\* tod.py:359
intent_keywords == {
    <<"c", "o", "n", "t", "a", "c", "t">>, <<"b", "e", " ", "c", "o", "n", "t", "a", "c", "t",
        "e", "d">>, <<"r", "e", "a", "c", "h", " ", "o", "u", "t">>, <<"g", "e", "t", " ",
        "i", "n", " ", "t", "o", "u", "c", "h">>, <<"f", "o", "l", "l", "o", "w", " ", "u", "p">>,
    <<"c", "a", "l", "l", " ", "m", "e">>, <<"e", "m", "a", "i", "l", " ", "m", "e">>}

INVALID_PREFIX == <<"I", "N", "V", "A", "L", "I", "D", ":">>

\* tod.py:365
INTENT_OVERRIDE ==
    <<"I", "N", "V", "A", "L", "I", "D", ":", " ", "U", "s", "e", "r", " ", "i", "s", " ",
        "e", "x", "p", "r", "e", "s", "s", "i", "n", "g", " ", "i", "n", "t", "e", "n", "t",
        " ", "t", "o", " ", "b", "e", " ", "c", "o", "n", "t", "a", "c", "t", "e", "d", ",",
        " ", "s", "t", "a", "r", "t", "i", "n", "g", " ", "i", "n", "f", "o", "r", "m", "a",
        "t", "i", "o", "n", " ", "c", "o", "l", "l", "e", "c", "t", "i", "o", "n">>

\* tod.py:538
NOT_CLEAR_ENOUGH == <<"A", "n", "s", "w", "e", "r", " ", "i", "s", " ", "n", "o", "t", " ",
        "c", "l", "e", "a", "r", " ", "e", "n", "o", "u", "g", "h">>

\* tod.py:541-545
R_INTENT == <<"e", "x", "p", "r", "e", "s", "s", "i", "n", "g", " ", "i", "n", "t", "e", "n",
        "t", " ", "t", "o", " ", "b", "e", " ", "c", "o", "n", "t", "a", "c", "t", "e", "d">>
R_GREETING == <<"g", "r", "e", "e", "t", "i", "n", "g">>
R_SMALL_TALK == <<"s", "m", "a", "l", "l", " ", "t", "a", "l", "k">>
R_INCOMPLETE == <<"i", "n", "c", "o", "m", "p", "l", "e", "t", "e">>
R_UNCLEAR == <<"u", "n", "c", "l", "e", "a", "r">>

\* prompts.py:40
REFUSED == <<"r", "e", "f", "u", "s", "e", "d">>

\* ------------------------------------------------------------ turn inputs
\* params.information_schema: the schema of spec section 8 (Scenario A),
\* continued with two more fields for larger NumFields
AllFields == <<
    [name |-> <<"n", "a", "m", "e">>, question |-> "What is your name?"],
    [name |-> <<"p", "h", "o", "n", "e">>, question |-> "What is your contact number?"],
    [name |-> <<"e", "m", "a", "i", "l">>, question |-> "What is your email?"],
    [name |-> <<"c", "i", "t", "y">>, question |-> "Which city do you live in?"] >>

GoodSchema == [wellformed |-> TRUE, fields |-> SubSeq(AllFields, 1, NumFields)]
EmptySchema == [wellformed |-> TRUE, fields |-> <<>>]
MalformedSchema == [wellformed |-> FALSE, fields |-> <<>>]
Schemas == {GoodSchema, EmptySchema, MalformedSchema}

\* params.query
Q_EMPTY == <<>>
Q_BLANK == <<" ">>
Q_YES == <<"y", "e", "s">>
Q_YES_PADDED == <<" ", "Y", "e", "s", " ">>
Q_OK_THANKS == <<"o", "k", " ", "t", "h", "a", "n", "k", "s">>
Q_YESTERDAY == <<"y", "e", "s", "t", "e", "r", "d", "a", "y">>
Q_NO == <<"N", "o">>
Q_NOT_CORRECT == <<"n", "o", "t", " ", "c", "o", "r", "r", "e", "c", "t">>
Q_HELLO == <<"H", "e", "l", "l", "o">>
Q_INTENT == <<"I", " ", "w", "a", "n", "t", " ", "t", "o", " ", "b", "e", " ", "c", "o", "n",
        "t", "a", "c", "t", "e", "d">>
Q_EDIT_COLON == <<"P", "h", "o", "n", "e", ":", " ", "1", "3", "9">>
Q_EDIT_SPACE == <<"p", "h", "o", "n", "e", " ", "1", "3", "9">>

Queries == {Q_EMPTY, Q_BLANK, Q_YES, Q_YES_PADDED, Q_OK_THANKS, Q_YESTERDAY, Q_NO,
            Q_NOT_CORRECT, Q_HELLO, Q_INTENT, Q_EDIT_COLON, Q_EDIT_SPACE}

\* replies of the Understanding Oracle (prompts.py:5-10); None: the call fails
V_VALID == <<"J", "o", "h", "n">>
V_GREETING == <<"I", "N", "V", "A", "L", "I", "D", ":", " ", "U", "s", "e", "r", " ", "i",
        "s", " ", "g", "r", "e", "e", "t", "i", "n", "g", " ", "o", "r", " ", "m", "a", "k",
        "i", "n", "g", " ", "s", "m", "a", "l", "l", " ", "t", "a", "l", "k">>
V_INCOMPLETE == <<"I", "N", "V", "A", "L", "I", "D", ":", " ", "A", "n", "s", "w", "e", "r",
        " ", "i", "s", " ", "i", "n", "c", "o", "m", "p", "l", "e", "t", "e", ",", " ", "n",
        "e", "e", "d", " ", "s", "p", "e", "c", "i", "f", "i", "c", " ", "n", "u", "m", "b",
        "e", "r">>
V_IRRELEVANT == <<"I", "N", "V", "A", "L", "I", "D", ":", " ", "A", "n", "s", "w", "e", "r",
        " ", "i", "s", " ", "i", "r", "r", "e", "l", "e", "v", "a", "n", "t", " ", "t", "o",
        " ", "t", "h", "e", " ", "q", "u", "e", "s", "t", "i", "o", "n">>
V_INTENT == <<"I", "N", "V", "A", "L", "I", "D", ":", " ", "U", "s", "e", "r", " ", "i", "s",
        " ", "e", "x", "p", "r", "e", "s", "s", "i", "n", "g", " ", "i", "n", "t", "e", "n",
        "t", " ", "b", "u", "t", " ", "n", "o", "t", " ", "a", "n", "s", "w", "e", "r", "i",
        "n", "g", " ", "t", "h", "e", " ", "c", "u", "r", "r", "e", "n", "t", " ", "q", "u",
        "e", "s", "t", "i", "o", "n">>
V_UNCLEAR == <<"I", "N", "V", "A", "L", "I", "D", ":", " ", "U", "n", "c", "l", "e", "a", "r">>

ValidationReplies ==
    {None} \cup {Some(r) : r \in {V_VALID, V_GREETING, V_INCOMPLETE, V_IRRELEVANT,
                                  V_INTENT, V_UNCLEAR}}

\* values the Extraction Oracle returns for a field
A_JOHN == <<"J", "o", "h", "n">>
ExtractedValues == {Some(<<>>), Some(A_JOHN), Some(REFUSED)}

\* every mapping the Extraction Oracle can return over the names of a field list
ExtractedDicts(fields) ==
    LET names == {fields[i].name : i \in 1..Len(fields)}
    IN  UNION {[S -> ExtractedValues] : S \in SUBSET names}

\* replies of the Extraction Oracle: the call fails, the reply is no JSON
\* object, or it is a mapping
ExtractionReplies(fields) ==
    {[raises |-> TRUE, is_dict |-> FALSE, dict |-> EmptyDict],
     [raises |-> FALSE, is_dict |-> FALSE, dict |-> EmptyDict]}
    \cup {[raises |-> FALSE, is_dict |-> TRUE, dict |-> d] : d \in ExtractedDicts(fields)}

\* ------------------------------------------------------------- data model
DialogueField(name, question, required) ==
    [name |-> name, question |-> question, required |-> required, value |-> None]

DialogueState(fields) ==
    [fields |-> fields, current_field_index |-> 0, completed |-> FALSE,
     confirmation_requested |-> FALSE, confirmed |-> FALSE]

\* all(f.value for f in fields)
AllValues(fields) == \A i \in 1..Len(fields) : Truthy(fields[i].value)

\* any(f.value for f in fields)
AnyValue(fields) == \E i \in 1..Len(fields) : Truthy(fields[i].value)

\* ------------------------------------------------------------ state store
\* json.dumps(model_dump()).encode(): the document that is written
Dump(state) ==
    [json |-> TRUE,
     fields |-> [i \in 1..Len(state.fields) |->
                    [name |-> state.fields[i].name,
                     question |-> state.fields[i].question,
                     required |-> state.fields[i].required,
                     value |-> state.fields[i].value]],
     current_field_index |-> state.current_field_index,
     completed |-> state.completed,
     confirmation_requested |-> state.confirmation_requested,
     confirmed |-> state.confirmed]

\* a record that json.loads rejects
CorruptBytes ==
    [json |-> FALSE, fields |-> <<>>, current_field_index |-> 0, completed |-> FALSE,
     confirmation_requested |-> FALSE, confirmed |-> FALSE]

\* DialogueState(**json.loads(stored_data.decode()))
Parse(bytes) ==
    [fields |-> [i \in 1..Len(bytes.fields) |->
                    [name |-> bytes.fields[i].name,
                     question |-> bytes.fields[i].question,
                     required |-> bytes.fields[i].required,
                     value |-> bytes.fields[i].value]],
     current_field_index |-> bytes.current_field_index,
     completed |-> bytes.completed,
     confirmation_requested |-> bytes.confirmation_requested,
     confirmed |-> bytes.confirmed]

\* mutant: whatever bytes the store holds are taken for a record
LoadedStateTrustsBytes(stored) ==
    IF stored = None THEN None ELSE Some(Parse(stored[1]))

\* _load_dialogue_state: the returned state, None on a miss or on any exception
LoadedState(stored) ==
    IF stored = None THEN None
    ELSE IF ~stored[1].json THEN None
    ELSE Some(Parse(stored[1]))

\* mutant: loading leaves self.collected_data as it was
LoadedCollectedKeeps(stored, cd) == cd

\* _load_dialogue_state: self.collected_data after the call
LoadedCollected(stored, cd) ==
    IF LoadedState(stored) = None THEN cd
    ELSE LET fs == LoadedState(stored)[1].fields
             known == {i \in 1..Len(fs) : fs[i].value # None}
         IN  [n \in {fs[i].name : i \in known} |->
                 fs[CHOOSE i \in known : fs[i].name = n].value]

\* mutant: a schema that cannot be read counts as a schema without fields
InitRaisesNever(schema) == FALSE

\* _init_dialogue_state; raises ValueError on a malformed schema
InitRaises(schema) == ~schema.wellformed

InitDialogueState(schema) ==
    DialogueState([i \in 1..Len(schema.fields) |->
        DialogueField(schema.fields[i].name, schema.fields[i].question, TRUE)])

\* --------------------------------------------------------- turn bookkeeping
\* c is the running turn: [ds, cd, st, events]
Ev(c, e) == [c EXCEPT !.events = Append(@, e)]

\* yield self.create_text_message(...)
Text(lit, question, reason, summary) ==
    [op |-> "text", lit |-> lit, question |-> question, reason |-> reason,
     summary |-> summary]

\* yield self.create_json_message({"execution_metadata": ...})
Metadata == [op |-> "json", kind |-> "execution_metadata", mapping |-> EmptyDict]

\* mutant: the record is never written
SaveSkipped(c, save_ok) ==
    Ev(c, [op |-> "set", ok |-> FALSE, bytes |-> Dump(c.ds)])

\* mutant: a failing write puts the in-memory state back to the stored record
SaveOrRollBack(c, save_ok) ==
    LET e == [op |-> "set", ok |-> save_ok, bytes |-> Dump(c.ds)]
    IN  IF save_ok THEN Ev([c EXCEPT !.st = Some(Dump(c.ds))], e)
        ELSE IF LoadedState(c.st) = None THEN Ev(c, e)
        ELSE Ev([c EXCEPT !.ds = LoadedState(c.st)[1]], e)

\* _save_dialogue_state: a failing write is swallowed
Save(c, save_ok) ==
    [c EXCEPT !.st = IF save_ok THEN Some(Dump(c.ds)) ELSE @,
              !.events = Append(@, [op |-> "set", ok |-> save_ok, bytes |-> Dump(c.ds)])]

\* the turn ends: return, or an exception leaves _invoke
End(c, how) ==
    [ds |-> Some(c.ds), cd |-> c.cd, st |-> c.st, events |-> c.events, outcome |-> how]

\* _generate_summary: one "<question> <value>" line per field
GenerateSummary(state) ==
    [i \in 1..Len(state.fields) |->
        [question |-> state.fields[i].question, value |-> state.fields[i].value]]

\* _get_conversation_history: fields[:current_field_index] that hold a value
RECURSIVE HistoryOf(_)
HistoryOf(fs) ==
    IF fs = <<>> THEN <<>>
    ELSE (IF Truthy(Head(fs).value)
          THEN <<[question |-> Head(fs).question, value |-> Head(fs).value]>>
          ELSE <<>>) \o HistoryOf(Tail(fs))

GetConversationHistory(state) ==
    HistoryOf(SubSeq(state.fields, 1,
        IF state.current_field_index < Len(state.fields)
        THEN state.current_field_index ELSE Len(state.fields)))

\* _is_valid_answer
IsValidAnswer(content) == ~startswith(content, INVALID_PREFIX)

\* ------------------------------------------------------- the turn, by step
\* mutant: a marker matches whatever begins with it
MatchesAnyPrefix(q, markers) ==
    LET lower_q == lower(strip(q))
    IN  \E m \in markers : startswith(lower_q, m)

\* tod.py:161 / 163: the utterance against one marker set
Matches(q, markers) ==
    LET lower_q == lower(strip(q))
    IN  \E m \in markers : m = lower_q \/ startswith(lower_q, m \o <<" ">>)

IsPositive(q) == Matches(q, positive_markers)

IsNegative(q) == Matches(q, negative_markers)

\* tod.py:612-673: direct field modification, then the end of _invoke
DirectEdit(c, q, save_ok) ==
    IF ~c.ds.confirmation_requested /\ ~c.ds.completed /\ AllValues(c.ds.fields)
    THEN
        LET parts == split1(strip(q))
            delimiter_index == find(q, ":")
            field_name ==
                IF delimiter_index # -1 THEN strip(SubSeq(q, 1, delimiter_index))
                ELSE IF Len(parts) = 2 THEN strip(parts[1])
                ELSE <<>>
            new_value ==
                IF delimiter_index # -1 THEN strip(SubSeq(q, delimiter_index + 2, Len(q)))
                ELSE IF Len(parts) = 2 THEN strip(parts[2])
                ELSE <<>>
            hits == {i \in 1..Len(c.ds.fields) :
                        lower(c.ds.fields[i].name) = lower(field_name)}
            updated == field_name # <<>> /\ new_value # <<>> /\ hits # {}
            k == CHOOSE i \in hits : \A j \in hits : i <= j
            c1 == [c EXCEPT !.ds.fields[k].value = Some(new_value),
                            !.cd = DictSet(@, c.ds.fields[k].name, Some(new_value)),
                            !.ds.confirmation_requested = TRUE]
            c2 == Ev(c1, Text("Updated. Please review the collected information. Reply 'yes' to confirm, or specify another change.\n{summary}",
                              "", <<>>, GenerateSummary(c1.ds)))
            c3 == Ev(Save(c2, save_ok), Metadata)
        IN  IF updated THEN End(c3, "returned") ELSE End(c, "returned")
    ELSE End(c, "returned")

\* tod.py:538: the reason of an invalid validation reply
ReasonOf(content) ==
    IF startswith(content, INVALID_PREFIX)
    THEN strip(AfterPrefix(content, INVALID_PREFIX))
    ELSE NOT_CLEAR_ENOUGH

\* mutant: the reason is reported without the question
RepromptMessageDropsQuestion(is_valid, content, is_first_interaction, question) ==
    IF ~is_valid
    THEN Text("{reason}", "", ReasonOf(content), <<>>)
    ELSE Text("I didn't catch that clearly. {question}", question, <<>>, <<>>)

\* tod.py:537-555: the re-prompt when nothing was extracted
RepromptMessage(is_valid, content, is_first_interaction, question) ==
    LET reason == ReasonOf(content)
    IN  IF ~is_valid
        THEN IF is_first_interaction /\ contains(reason, R_INTENT)
             THEN Text("I understand you want to be contacted. To help you better, {question}",
                       question, <<>>, <<>>)
             ELSE IF contains(reason, R_GREETING) \/ contains(lower(reason), R_SMALL_TALK)
             THEN Text("Hello! {question}", question, <<>>, <<>>)
             ELSE IF contains(reason, R_INCOMPLETE) \/ contains(lower(reason), R_UNCLEAR)
             THEN Text("{reason}, please provide {question}", question, reason, <<>>)
             ELSE IF is_first_interaction
             THEN Text("To get started, {question}", question, <<>>, <<>>)
             ELSE Text("{reason}, {question}", question, reason, <<>>)
        ELSE Text("I didn't catch that clearly. {question}", question, <<>>, <<>>)

\* mutant: every extracted entry is staged, empty values too
FieldsToUpdateUnfiltered(fields, extracted_answers) ==
    LET staged == {i \in 1..Len(fields) : fields[i].name \in DOMAIN extracted_answers}
    IN  [n \in {fields[i].name : i \in staged} |-> extracted_answers[n]]

\* tod.py:403-406: the extracted values that are staged
FieldsToUpdate(fields, extracted_answers) ==
    LET staged == {i \in 1..Len(fields) :
                      /\ fields[i].name \in DOMAIN extracted_answers
                      /\ Truthy(extracted_answers[fields[i].name])}
    IN  [n \in {fields[i].name : i \in staged} |-> extracted_answers[n]]

\* mutant: only the first staged field is applied
ApplyUpdatesFirstOnly(fields, fields_to_update) ==
    LET staged == {i \in 1..Len(fields) : fields[i].name \in DOMAIN fields_to_update}
    IN  [i \in 1..Len(fields) |->
            IF i \in staged /\ \A j \in staged : i <= j
            THEN [fields[i] EXCEPT !.value = fields_to_update[fields[i].name]]
            ELSE fields[i]]

\* tod.py:409-411: the fields after the staged values are applied
ApplyUpdates(fields, fields_to_update) ==
    [i \in 1..Len(fields) |->
        IF fields[i].name \in DOMAIN fields_to_update
        THEN [fields[i] EXCEPT !.value = fields_to_update[fields[i].name]]
        ELSE fields[i]]

\* tod.py:412: self.collected_data after the staged values are applied
CollectUpdates(cd, fields_to_update) ==
    [n \in (DOMAIN cd) \cup (DOMAIN fields_to_update) |->
        IF n \in DOMAIN fields_to_update THEN fields_to_update[n] ELSE cd[n]]

\* mutant: the loop over the fields is skipped and the index keeps its
\* starting value, the number of fields
NextFieldIndexPastEnd(fields) == Len(fields)

\* mutant: the index is the number of answered fields
NextFieldIndexCounts(fields) ==
    Cardinality({i \in 1..Len(fields) :
                    fields[i].value # None /\ fields[i].value # Some(<<>>)})

\* mutant: a refused field is still a gap
NextFieldIndexRefusalIsGap(fields) ==
    LET gaps == {i \in 1..Len(fields) :
                    \/ fields[i].value = None \/ fields[i].value = Some(<<>>)
                    \/ fields[i].value = Some(REFUSED)}
    IN  IF gaps = {} THEN Len(fields)
        ELSE (CHOOSE i \in gaps : \A j \in gaps : i <= j) - 1

\* tod.py:414-418
NextFieldIndex(fields) ==
    LET gaps == {i \in 1..Len(fields) : fields[i].value = None \/ fields[i].value = Some(<<>>)}
    IN  IF gaps = {} THEN Len(fields)
        ELSE (CHOOSE i \in gaps : \A j \in gaps : i <= j) - 1

\* mutant: the review is taken for the confirmation and the conversation closed
RequestConfirmationCompletes(state) ==
    [state EXCEPT !.confirmation_requested = TRUE, !.confirmed = TRUE,
                  !.completed = TRUE]

\* tod.py:423-425: all fields collected, ask for confirmation; tod.py:433: "Do
\* not mark completed yet; wait for user confirmation"
RequestConfirmation(state) == [state EXCEPT !.confirmation_requested = TRUE]

\* tod.py:400-610: the extraction result is applied, or the question is asked again
AfterExtraction(c, q, is_valid, content, is_first_interaction, current_field, extracted_answers, save_ok) ==
    LET fields_to_update == FieldsToUpdate(c.ds.fields, extracted_answers)
        answers_saved == DOMAIN fields_to_update # {}
        c1 == [c EXCEPT !.ds.fields = ApplyUpdates(@, fields_to_update),
                        !.cd = CollectUpdates(@, fields_to_update)]
        c2 == Save([c1 EXCEPT !.ds.current_field_index = NextFieldIndex(c1.ds.fields)],
                   save_ok)
        \* tod.py:423-476
        a1 == [c2 EXCEPT !.ds = RequestConfirmation(@)]
        a2 == Ev(a1, Text("Please review the collected information below. If everything is correct, reply 'yes' to confirm, or reply 'no' / indicate the field name with new value to modify.\n{summary}",
                          "", <<>>, GenerateSummary(a1.ds)))
        a3 == Save(Ev(Save(a2, save_ok), Metadata), save_ok)
        \* tod.py:477-534
        b1 == Ev(c2, Text("{question}",
                          c2.ds.fields[c2.ds.current_field_index + 1].question, <<>>, <<>>))
        b2 == Save(Ev(b1, Metadata), save_ok)
        \* tod.py:535-610
        n1 == Ev(c, RepromptMessage(is_valid, content, is_first_interaction,
                                    current_field.question))
        n2 == Save(Ev(n1, Metadata), save_ok)
    IN  IF answers_saved
        THEN IF c2.ds.current_field_index >= Len(c2.ds.fields)
             THEN End(a3, "returned")
             ELSE End(b2, "returned")
        ELSE End(n2, "returned")

\* mutant: an utterance judged invalid is not handed to the Extraction Oracle
ExtractOnlyValid(c, q, is_valid, content, is_first_interaction, current_field, xreply, save_ok) ==
    LET call == [op |-> "llm", call |-> "extraction",
                 fields |-> [i \in 1..Len(c.ds.fields) |->
                                [name |-> c.ds.fields[i].name,
                                 question |-> c.ds.fields[i].question,
                                 currentValue |-> c.ds.fields[i].value]],
                 reply |-> xreply]
        c1 == Ev(c, call)
        extracted_answers == IF xreply.is_dict THEN xreply.dict ELSE EmptyDict
    IN  IF is_valid
        THEN IF xreply.raises THEN End(c1, "OracleError")
             ELSE AfterExtraction(c1, q, is_valid, content, is_first_interaction,
                                  current_field, extracted_answers, save_ok)
        ELSE AfterExtraction(c, q, is_valid, content, is_first_interaction,
                             current_field, EmptyDict, save_ok)

\* mutant: a failing Extraction Oracle call counts as an empty extraction
ExtractSwallowsFailure(c, q, is_valid, content, is_first_interaction, current_field, xreply, save_ok) ==
    LET call == [op |-> "llm", call |-> "extraction",
                 fields |-> [i \in 1..Len(c.ds.fields) |->
                                [name |-> c.ds.fields[i].name,
                                 question |-> c.ds.fields[i].question,
                                 currentValue |-> c.ds.fields[i].value]],
                 reply |-> xreply]
        c1 == Ev(c, call)
        extracted_answers == IF xreply.is_dict /\ ~xreply.raises THEN xreply.dict
                             ELSE EmptyDict
    IN  IF is_valid \/ strip(q) # <<>>
        THEN AfterExtraction(c1, q, is_valid, content, is_first_interaction,
                             current_field, extracted_answers, save_ok)
        ELSE DirectEdit(c, q, save_ok)

\* tod.py:70-115, 387-398: the Extraction Oracle is called
Extract(c, q, is_valid, content, is_first_interaction, current_field, xreply, save_ok) ==
    LET call == [op |-> "llm", call |-> "extraction",
                 fields |-> [i \in 1..Len(c.ds.fields) |->
                                [name |-> c.ds.fields[i].name,
                                 question |-> c.ds.fields[i].question,
                                 currentValue |-> c.ds.fields[i].value]],
                 reply |-> xreply]
        c1 == Ev(c, call)
        extracted_answers == IF xreply.is_dict THEN xreply.dict ELSE EmptyDict
    IN  IF is_valid \/ strip(q) # <<>>
        THEN IF xreply.raises THEN End(c1, "OracleError")
             ELSE AfterExtraction(c1, q, is_valid, content, is_first_interaction,
                                  current_field, extracted_answers, save_ok)
        ELSE DirectEdit(c, q, save_ok)

\* tod.py:362: the first-turn intent pattern, on the lower-cased utterance
ExpressesIntent(q) ==
    LET user_input_lower == lower(q)
    IN  \E keyword \in intent_keywords : contains(user_input_lower, keyword)

\* tod.py:317
IsFirstInteraction(state) == state.current_field_index = 0 /\ ~AnyValue(state.fields)

\* mutant: the override leaves the oracle's reply in place
ValidatedContentKeepsReply(is_first_interaction, q, content) == content

\* tod.py:356-369: response.message.content after the first-turn override
ValidatedContent(is_first_interaction, q, content) ==
    IF is_first_interaction /\ ExpressesIntent(q) THEN INTENT_OVERRIDE ELSE content

\* mutant: the oracle's verdict stands on the first turn too
ValidationResultTrustsOracle(is_first_interaction, q, content) == IsValidAnswer(content)

\* tod.py:356-369: is_valid
ValidationResult(is_first_interaction, q, content) ==
    IF is_first_interaction /\ ExpressesIntent(q) THEN FALSE ELSE IsValidAnswer(content)

\* tod.py:316-385: the Understanding Oracle is called, then extraction
Validate(c, q, current_field, vreply, xreply, save_ok) ==
    LET is_first_interaction == IsFirstInteraction(c.ds)
        call == [op |-> "llm", call |-> "validation",
                 history |-> GetConversationHistory(c.ds),
                 question |-> current_field.question,
                 content |-> vreply]
        c1 == Ev(c, call)
        is_valid == ValidationResult(is_first_interaction, q, vreply[1])
        content == ValidatedContent(is_first_interaction, q, vreply[1])
        \* tod.py:371-385: the finished validation log
        c2 == Ev(c1, [op |-> "log", label |-> "validation", response |-> content,
                      is_valid |-> is_valid])
    IN  IF vreply = None THEN End(c1, "OracleError")
        ELSE Extract(c2, q, is_valid, content, is_first_interaction, current_field,
                     xreply, save_ok)

\* mutant: an empty utterance is validated like any other
AskOrValidateIgnoresEmpty(c, q, vreply, xreply, save_ok) ==
    IF c.ds.current_field_index >= Len(c.ds.fields)
    THEN End(c, "IndexError")
    ELSE Validate(c, q, c.ds.fields[c.ds.current_field_index + 1], vreply, xreply,
                  save_ok)

\* tod.py:283-314: the current field is looked up; an empty utterance repeats
\* its question
AskOrValidate(c, q, vreply, xreply, save_ok) ==
    IF c.ds.current_field_index >= Len(c.ds.fields)
    THEN End(c, "IndexError")
    ELSE LET current_field == c.ds.fields[c.ds.current_field_index + 1]
         IN  IF strip(q) = <<>>
             THEN End(Ev(c, Text("{question}", current_field.question, <<>>, <<>>)),
                      "returned")
             ELSE Validate(c, q, current_field, vreply, xreply, save_ok)

\* mutant: the guard of finalization asks for completed instead of its negation
FinalizeGuardWantsCompleted(state) ==
    state.confirmed /\ state.completed /\ AllValues(state.fields)

\* mutant: finalization is not guarded by completed
FinalizeGuardIgnoresCompleted(state) ==
    state.confirmed /\ AllValues(state.fields)

\* tod.py:243: the guard of finalization
FinalizeGuard(state) ==
    state.confirmed /\ ~state.completed /\ AllValues(state.fields)

\* mutant: the stored record is kept at completion
FinalizeKeepsRecord(c) ==
    LET c1 == [c EXCEPT !.ds.completed = TRUE]
        c2 == Ev(c1, Text("InformationCollectionCompleted:\n{summary}", "", <<>>,
                          GenerateSummary(c1.ds)))
        c3 == Ev(c2, [op |-> "json", kind |-> "collected_data", mapping |-> c2.cd])
    IN  End(Ev(c3, Metadata), "returned")

\* tod.py:244-281: the summary and the collected data are emitted, the record deleted
Finalize(c) ==
    LET c1 == [c EXCEPT !.ds.completed = TRUE]
        c2 == Ev(c1, Text("InformationCollectionCompleted:\n{summary}", "", <<>>,
                          GenerateSummary(c1.ds)))
        c3 == Ev(c2, [op |-> "json", kind |-> "collected_data", mapping |-> c2.cd])
        c4 == Ev(c3, Metadata)
        c5 == Ev([c4 EXCEPT !.st = None], [op |-> "delete"])
    IN  End(c5, "returned")

\* tod.py:242-283
FinalizeOrContinue(c, q, vreply, xreply, save_ok) ==
    IF FinalizeGuard(c.ds) THEN Finalize(c)
    ELSE AskOrValidate(c, q, vreply, xreply, save_ok)

\* mutant: confirming clears the pending request
ConfirmClearsRequest(state) ==
    [state EXCEPT !.confirmed = TRUE, !.confirmation_requested = FALSE]

\* mutant: a positive reply leaves confirmed as it was
ConfirmForgets(state) == state

\* tod.py:162
Confirm(state) == [state EXCEPT !.confirmed = TRUE]

\* mutant: a denial restarts the collection at the first field
DenyResetsIndex(state) ==
    [state EXCEPT !.confirmation_requested = FALSE, !.confirmed = FALSE,
                  !.current_field_index = 0]

\* tod.py:165-166
Deny(state) == [state EXCEPT !.confirmation_requested = FALSE, !.confirmed = FALSE]

\* tod.py:164-203: negative reply to the review
DenyTurn(c, save_ok) ==
    LET c1 == [c EXCEPT !.ds = Deny(@)]
        c2 == Ev(c1, Text("Which field would you like to modify? Please reply with field name and new value.",
                          "", <<>>, <<>>))
        c3 == Save(Ev(c2, Metadata), save_ok)
    IN  End(c3, "returned")

\* mutant: an unclear reply drops the pending confirmation
AskYesNoReopens(c) ==
    End(Ev(Ev([c EXCEPT !.ds.confirmation_requested = FALSE],
              Text("Please confirm if the collected information is correct (yes/no).",
                   "", <<>>, <<>>)),
           Metadata),
        "returned")

\* tod.py:204-240: neither yes nor no
AskYesNo(c) ==
    End(Ev(Ev(c, Text("Please confirm if the collected information is correct (yes/no).",
                      "", <<>>, <<>>)),
           Metadata),
        "returned")

\* tod.py:155-283: a pending confirmation reads the utterance as yes / no
Confirmation(c, q, vreply, xreply, save_ok) ==
    IF c.ds.confirmation_requested /\ ~c.ds.confirmed
    THEN IF IsPositive(q)
         THEN FinalizeOrContinue([c EXCEPT !.ds = Confirm(@)], q, vreply, xreply, save_ok)
         ELSE IF IsNegative(q) THEN DenyTurn(c, save_ok)
         ELSE AskYesNo(c)
    ELSE FinalizeOrContinue(c, q, vreply, xreply, save_ok)

\* tod.py:146-153: the state the turn works from, None when initialization raises
Resume(ds, stored, schema) ==
    IF ds # None THEN ds
    ELSE IF LoadedState(stored) # None THEN LoadedState(stored)
    ELSE IF InitRaises(schema) THEN None
    ELSE Some(InitDialogueState(schema))

\* tod.py:146-153: self.collected_data after the state is resumed
ResumeCollected(ds, cd, stored) ==
    IF ds # None THEN cd ELSE LoadedCollected(stored, cd)

\* tod.py:146-153: the store is read only when there is no in-memory state, and
\* _init_dialogue_state is called on the schema only when the read yields none
ResumeEvents(ds, stored, schema) ==
    IF ds # None THEN <<>>
    ELSE IF LoadedState(stored) # None THEN <<[op |-> "get"]>>
    ELSE <<[op |-> "get"], [op |-> "init", schema |-> schema]>>

\* _invoke: one turn
Invoke(ds, cd, stored, q, schema, vreply, xreply, save_ok) ==
    LET working == Resume(ds, stored, schema)
    IN  IF working = None
        THEN [ds |-> None, cd |-> ResumeCollected(ds, cd, stored), st |-> stored,
              events |-> ResumeEvents(ds, stored, schema), outcome |-> "ValueError"]
        ELSE Confirmation([ds |-> working[1], cd |-> ResumeCollected(ds, cd, stored),
                           st |-> stored, events |-> ResumeEvents(ds, stored, schema)],
                          q, vreply, xreply, save_ok)

\* ------------------------------------------------------------ the machine
NoTurn == "none"

\* __init__ (tod.py:16-21); the store is empty or holds an unreadable record
Init ==
    /\ dialogue_state = None
    /\ collected_data = EmptyDict
    /\ storage \in {None, Some(CorruptBytes)}
    /\ finalized = FALSE
    /\ query = <<>>
    /\ stored_before = None
    /\ start = None
    /\ events = <<>>
    /\ outcome = NoTurn

\* did the turn call this oracle
Called(r, which) ==
    \E i \in 1..Len(r.events) : r.events[i].op = "llm" /\ r.events[i].call = which

\* did the turn delete the stored record (tod.py:280)
Deleted(r) == \E i \in 1..Len(r.events) : r.events[i].op = "delete"

\* oracle replies that stand in until the turn is seen to make the call
NoValidation == Some(V_VALID)
NoExtraction == [raises |-> FALSE, is_dict |-> FALSE, dict |-> EmptyDict]

\* the schema is consulted only when a state is initialized (tod.py:152-153)
SchemaChoices ==
    IF dialogue_state = None /\ LoadedState(storage) = None THEN Schemas ELSE {GoodSchema}

\* the turn's effect on the strategy object and the store
Finish(r, q, schema) ==
    /\ dialogue_state' = r.ds
    /\ collected_data' = r.cd
    /\ storage' = r.st
    /\ finalized' = (finalized \/ Deleted(r))
    /\ query' = q
    /\ stored_before' = storage
    /\ start' = Resume(dialogue_state, storage, schema)
    /\ events' = r.events
    /\ outcome' = r.outcome

\* one call of _invoke; each input is drawn where the turn consults it, and
\* save_ok tells whether the store accepts the turn's writes (tod.py:62-68)
Turn(save_ok) ==
    /\ outcome = NoTurn
    /\ \E q \in Queries, schema \in SchemaChoices :
        LET Run(v, x) == Invoke(dialogue_state, collected_data, storage, q, schema,
                                v, x, save_ok)
            quiet == Run(NoValidation, NoExtraction)
        IN  IF ~Called(quiet, "validation") THEN Finish(quiet, q, schema)
            ELSE \E v \in ValidationReplies :
                    IF ~Called(Run(v, NoExtraction), "extraction")
                    THEN Finish(Run(v, NoExtraction), q, schema)
                    ELSE \E x \in ExtractionReplies(Resume(dialogue_state, storage,
                                                           schema)[1].fields) :
                            Finish(Run(v, x), q, schema)

\* the harness has consumed what the turn yielded
Consumed ==
    /\ query' = <<>>
    /\ stored_before' = None
    /\ start' = None
    /\ events' = <<>>
    /\ outcome' = NoTurn

\* the next turn reaches the same strategy object
Deliver ==
    /\ outcome # NoTurn
    /\ Consumed
    /\ UNCHANGED <<dialogue_state, collected_data, storage, finalized>>

\* the next turn reaches a new strategy object (tod.py:16-21)
NewInstance ==
    /\ outcome # NoTurn
    /\ dialogue_state # None
    /\ dialogue_state' = None
    /\ collected_data' = EmptyDict
    /\ Consumed
    /\ UNCHANGED <<storage, finalized>>

Next == Turn(TRUE) \/ Deliver \/ NewInstance

Spec == Init /\ [][Next]_vars

\* the same machine with a store whose writes can fail
SpecStoreDown == Init /\ [][Next \/ Turn(FALSE)]_vars

\* ---------------------------------------- the machine over a longer schema
\* params.information_schema with all four fields
WideSchema == [wellformed |-> TRUE, fields |-> AllFields]

\* the utterances, Understanding Oracle replies and Extraction Oracle replies
\* the longer schema is exercised with
WideQueries == {Q_EMPTY, Q_HELLO, Q_YES, Q_NO}

WideValidationReplies == {Some(V_VALID), Some(V_GREETING)}

WideExtractionReplies(fields) ==
    LET names == {fields[i].name : i \in 1..Len(fields)}
    IN  {[raises |-> FALSE, is_dict |-> FALSE, dict |-> EmptyDict]}
        \cup {[raises |-> FALSE, is_dict |-> TRUE, dict |-> d] :
                 d \in UNION {[S -> {Some(A_JOHN)}] : S \in SUBSET names}}

\* one call of _invoke on a conversation over the four fields
WideTurn ==
    /\ outcome = NoTurn
    /\ \E q \in WideQueries :
        LET Run(v, x) == Invoke(dialogue_state, collected_data, storage, q, WideSchema,
                                v, x, TRUE)
            quiet == Run(NoValidation, NoExtraction)
        IN  IF ~Called(quiet, "validation") THEN Finish(quiet, q, WideSchema)
            ELSE \E v \in WideValidationReplies :
                    IF ~Called(Run(v, NoExtraction), "extraction")
                    THEN Finish(Run(v, NoExtraction), q, WideSchema)
                    ELSE \E x \in WideExtractionReplies(Resume(dialogue_state, storage,
                                                               WideSchema)[1].fields) :
                            Finish(Run(v, x), q, WideSchema)

NextWide == WideTurn \/ Deliver \/ NewInstance

SpecWide == Init /\ [][NextWide]_vars

\* ------------------------------ the machine over a store that may refuse
\* one call of _invoke whose writes the store accepts or refuses
\* (tod.py:62-68), exercised with the utterances and oracle replies of the
\* longer schema
FlakyTurn ==
    /\ outcome = NoTurn
    /\ \E q \in WideQueries, schema \in SchemaChoices, save_ok \in BOOLEAN :
        LET Run(v, x) == Invoke(dialogue_state, collected_data, storage, q, schema,
                                v, x, save_ok)
            quiet == Run(NoValidation, NoExtraction)
        IN  IF ~Called(quiet, "validation") THEN Finish(quiet, q, schema)
            ELSE \E v \in WideValidationReplies :
                    IF ~Called(Run(v, NoExtraction), "extraction")
                    THEN Finish(Run(v, NoExtraction), q, schema)
                    ELSE \E x \in WideExtractionReplies(Resume(dialogue_state, storage,
                                                               schema)[1].fields) :
                            Finish(Run(v, x), q, schema)

NextFlaky == FlakyTurn \/ Deliver \/ NewInstance

SpecFlaky == Init /\ [][NextFlaky]_vars

\* ------------------------------------- the machine in a cooperative setting
\* what a user who goes along with the conversation may say: nothing, a
\* greeting, "yes", "yesterday", and "No" while a question is open
CooperativeQueries == {Q_EMPTY, Q_HELLO, Q_YES, Q_YESTERDAY, Q_NO}

\* one call of _invoke over the schema's fields: both oracles answer, the
\* store takes every write, and a pending review is never answered with a
\* negative marker (tod.py:163)
CooperativeTurn ==
    /\ outcome = NoTurn
    /\ \E q \in CooperativeQueries :
        LET working == Resume(dialogue_state, storage, GoodSchema)[1]
            Run(v, x) == Invoke(dialogue_state, collected_data, storage, q,
                                GoodSchema, v, x, TRUE)
            quiet == Run(NoValidation, NoExtraction)
        IN  /\ (working.confirmation_requested /\ ~working.confirmed) => ~IsNegative(q)
            /\ IF ~Called(quiet, "validation") THEN Finish(quiet, q, GoodSchema)
               ELSE \E v \in WideValidationReplies :
                       IF ~Called(Run(v, NoExtraction), "extraction")
                       THEN Finish(Run(v, NoExtraction), q, GoodSchema)
                       ELSE \E x \in WideExtractionReplies(working.fields) :
                               Finish(Run(v, x), q, GoodSchema)

NextCooperative == CooperativeTurn \/ Deliver \/ NewInstance

\* the platform keeps the conversation going: every user message is handed
\* to _invoke and what _invoke yields is consumed
SpecCooperative == Init /\ [][NextCooperative]_vars /\ WF_vars(NextCooperative)

\* ------------------------------------------------------- reading a turn
TurnEnded == outcome # NoTurn

Returned == outcome = "returned"

\* the dialogue state the turn left in memory, and the one it worked from
Now == dialogue_state[1]

Before == start[1]

\* a turn that ran on a dialogue state (initialization did not raise)
Worked == TurnEnded /\ start # None /\ dialogue_state # None

IsText(e) == e.op = "text"

IsOracleCall(e) == e.op = "llm"

IsSet(e) == e.op = "set"

IsDelete(e) == e.op = "delete"

IsCollectedData(e) == e.op = "json" /\ e.kind = "collected_data"

Texts == SelectSeq(events, IsText)

OracleCalls == SelectSeq(events, IsOracleCall)

StoreWrites == SelectSeq(events, IsSet)

StoreDeletes == SelectSeq(events, IsDelete)

CollectedDataMessages == SelectSeq(events, IsCollectedData)

\* a field is satisfied iff its value is a non-empty string (spec section 3)
Satisfied(f) == f.value # None /\ Len(f.value[1]) > 0

AllSatisfied(fields) == \A i \in 1..Len(fields) : Satisfied(fields[i])

\* the index of the first unsatisfied field, 0-based, or the number of fields
FirstUnsatisfied(fields) ==
    IF AllSatisfied(fields) THEN Len(fields)
    ELSE (CHOOSE i \in 1..Len(fields) :
            ~Satisfied(fields[i]) /\ \A j \in 1..(i - 1) : Satisfied(fields[j])) - 1

AwaitingConfirmation(state) == state.confirmation_requested /\ ~state.confirmed

\* ----------------------------------------------------------------- claims
\* C1: after every turn that ends normally, current_field_index is the index
\* of the first unsatisfied field, or the number of fields when all are
\* satisfied, whatever the extraction returned and in whatever order fields
\* were filled.
C1_IndexIsFirstUnsatisfied ==
    (Returned /\ dialogue_state # None)
        => Now.current_field_index = FirstUnsatisfied(Now.fields)

\* a turn has filled the second field while the first is still empty
C1_Witness ==
    /\ Returned /\ Worked
    /\ Len(Now.fields) >= 2
    /\ ~Satisfied(Before.fields[2]) /\ Satisfied(Now.fields[2])
    /\ ~Satisfied(Now.fields[1])
    /\ Now.current_field_index = 0

\* C2: no turn, however it ends, turns a satisfied field back into an
\* unsatisfied one or lowers current_field_index.
C2_SatisfactionIsMonotonic ==
    Worked =>
        /\ Len(Now.fields) = Len(Before.fields)
        /\ \A i \in 1..Len(Before.fields) :
              Satisfied(Before.fields[i]) => Satisfied(Now.fields[i])
        /\ Now.current_field_index >= Before.current_field_index

\* the Extraction Oracle returned an empty value for a satisfied field and a
\* value for an unsatisfied one
C2_Witness ==
    /\ Returned /\ Worked
    /\ Len(OracleCalls) = 2
    /\ OracleCalls[2].reply.is_dict
    /\ \E i, j \in 1..Len(Before.fields) :
          /\ Satisfied(Before.fields[i])
          /\ Before.fields[i].name \in DOMAIN OracleCalls[2].reply.dict
          /\ OracleCalls[2].reply.dict[Before.fields[i].name] = Some(<<>>)
          /\ ~Satisfied(Before.fields[j]) /\ Satisfied(Now.fields[j])

\* the flags of a dialogue state, as spec section 3 relates them
FlagsConsistent(state) ==
    /\ state.confirmed => state.confirmation_requested
    /\ state.completed => (state.confirmed /\ AllSatisfied(state.fields))

\* C3: in every reachable state, in memory and in the store, confirmed implies
\* confirmation_requested, and completed implies confirmed and every field
\* satisfied.
C3_FlagsConsistent ==
    /\ dialogue_state # None => FlagsConsistent(Now)
    /\ LoadedState(storage) # None => FlagsConsistent(LoadedState(storage)[1])

\* a conversation over a non-empty schema has been completed
C3_Witness ==
    /\ Returned /\ Worked
    /\ Now.completed /\ Now.confirmed
    /\ Len(Now.fields) > 0

\* the completion text lists every field's question and value
IsCompletionSummary(t, fields) ==
    /\ t.lit = "InformationCollectionCompleted:\n{summary}"
    /\ Len(t.summary) = Len(fields)
    /\ \A i \in 1..Len(fields) :
          /\ t.summary[i].question = fields[i].question
          /\ t.summary[i].value = fields[i].value

\* the mapping has one entry per field, the field's value under its name
IsCollectedDataOf(m, fields) ==
    /\ DOMAIN m = {fields[i].name : i \in 1..Len(fields)}
    /\ \A i \in 1..Len(fields) : m[fields[i].name] = fields[i].value

\* C4: a positive reply to a pending confirmation sets confirmed and completed
\* in that turn, emits the completion summary and the collected-data mapping,
\* deletes the stored record and calls no oracle.
C4_PositiveReplyCompletes ==
    (Worked /\ AwaitingConfirmation(Before) /\ IsPositive(query)) =>
        /\ Returned
        /\ Now.confirmed /\ Now.completed
        /\ Now.fields = Before.fields
        /\ Len(Texts) = 1 /\ IsCompletionSummary(Texts[1], Now.fields)
        /\ Len(CollectedDataMessages) = 1
        /\ IsCollectedDataOf(CollectedDataMessages[1].mapping, Now.fields)
        /\ Len(StoreDeletes) = 1 /\ storage = None
        /\ OracleCalls = <<>>

\* "yes" answered the review of a stored conversation
C4_Witness ==
    /\ Worked /\ AwaitingConfirmation(Before) /\ query = Q_YES
    /\ stored_before # None
    /\ Now.completed /\ storage = None

\* C5: a negative reply to a pending confirmation clears
\* confirmation_requested, leaves confirmed, completed, every field and
\* current_field_index as they were, asks which field to modify, persists the
\* state and calls no oracle.
C5_NegativeReplyReopens ==
    (Worked /\ AwaitingConfirmation(Before) /\ ~IsPositive(query) /\ IsNegative(query)) =>
        /\ Returned
        /\ ~Now.confirmation_requested /\ ~Now.confirmed /\ ~Now.completed
        /\ Now.fields = Before.fields
        /\ Now.current_field_index = Before.current_field_index
        /\ Len(Texts) = 1
        /\ Texts[1].lit = "Which field would you like to modify? Please reply with field name and new value."
        /\ Len(StoreWrites) = 1 /\ StoreDeletes = <<>>
        /\ LoadedState(storage) = Some(Now)
        /\ OracleCalls = <<>>

\* "No" answered the review
C5_Witness ==
    /\ Worked /\ AwaitingConfirmation(Before) /\ query = Q_NO
    /\ Returned /\ ~Now.confirmation_requested
    /\ AllSatisfied(Now.fields) /\ Len(Now.fields) > 0

\* all fields satisfied, confirmation neither pending nor given: the state a
\* negative reply leaves
AfterDenial(state) ==
    /\ Len(state.fields) > 0
    /\ AllSatisfied(state.fields)
    /\ ~state.confirmation_requested /\ ~state.completed

\* the field that "Phone: 139" and "phone 139" name, and the value they give
EditedName == <<"p", "h", "o", "n", "e">>

EditedValue == <<"1", "3", "9">>

\* C6: after a negative confirmation, "<field>: <value>" or "<field> <value>"
\* naming an existing field (case-insensitively) overwrites that field's
\* value, sets confirmation_requested again, emits the updated summary and
\* persists the state.
C6_DirectEditAfterDenial ==
    (Worked /\ AfterDenial(Before) /\ query \in {Q_EDIT_COLON, Q_EDIT_SPACE}
            /\ \E i \in 1..Len(Before.fields) : Before.fields[i].name = EditedName) =>
        /\ Returned
        /\ \A i \in 1..Len(Now.fields) :
              Now.fields[i].name = EditedName => Now.fields[i].value = Some(EditedValue)
        /\ Now.confirmation_requested
        /\ Len(Texts) = 1
        /\ Texts[1].summary = GenerateSummary(Now)
        /\ LoadedState(storage) = Some(Now)

\* C7: in every dialogue state (collecting, awaiting confirmation, after a
\* negative confirmation, after completion on the same strategy object), a turn
\* with a well-formed schema and responsive oracles ends normally and emits
\* exactly one user-facing message.
C7_EveryTurnEmitsOneMessage ==
    (Worked /\ Len(Before.fields) > 0 /\ outcome # "OracleError") =>
        (Returned /\ Len(Texts) = 1)

\* C8: a reply to a pending confirmation that is neither positive nor negative
\* (the empty utterance included) asks again for yes/no and leaves the fields,
\* current_field_index, every flag and the stored record unchanged, with no
\* oracle call.
C8_UnclearReplyAsksAgain ==
    (Worked /\ AwaitingConfirmation(Before) /\ ~IsPositive(query) /\ ~IsNegative(query)) =>
        /\ Returned
        /\ Now = Before
        /\ Len(Texts) = 1
        /\ Texts[1].lit = "Please confirm if the collected information is correct (yes/no)."
        /\ StoreWrites = <<>> /\ StoreDeletes = <<>>
        /\ storage = stored_before
        /\ OracleCalls = <<>>

\* the empty utterance answered the review
C8_Witness ==
    /\ Worked /\ AwaitingConfirmation(Before) /\ query = Q_EMPTY
    /\ Returned /\ AwaitingConfirmation(Now)
    /\ Len(Texts) = 1

\* the turn began on a conversation that had been finalized: on the strategy
\* object that completed it, or on one that found its record deleted
BeganAfterCompletion ==
    \/ start # None /\ Before.completed
    \/ /\ finalized /\ stored_before = None
       /\ events # <<>> /\ events[1].op = "get"

\* C9: "yes" replayed after completed = true is a no-op: the state is
\* unchanged, nothing is deleted again, no second completion summary is
\* emitted and no oracle is called (here: none that would even answer), on the
\* same strategy object as well as on one resumed from the deleted store.
C9_ReplayedYesIsNoOp ==
    (TurnEnded /\ BeganAfterCompletion /\ IsPositive(query) /\ outcome # "OracleError") =>
        /\ OracleCalls = <<>>
        /\ StoreDeletes = <<>>
        /\ \A i \in 1..Len(Texts) :
              Texts[i].lit # "InformationCollectionCompleted:\n{summary}"
        /\ storage = stored_before
        /\ start # None => dialogue_state = start

\* completed became true in this turn
CompletedNow == Worked /\ ~Before.completed /\ Now.completed

\* C10: the stored record is deleted once, in the turn in which completed
\* becomes true, and in no other turn.
C10_DeleteOnlyAtCompletion ==
    TurnEnded =>
        /\ Len(StoreDeletes) = (IF CompletedNow THEN 1 ELSE 0)
        /\ CompletedNow => storage = None

\* "ok thanks" completed a conversation and its record was deleted
C10_Witness ==
    /\ CompletedNow /\ query = Q_OK_THANKS
    /\ Len(StoreDeletes) = 1
    /\ stored_before # None /\ storage = None

\* --------------------------------------------------- reading a collecting turn
IsExtraction(e) == e.op = "llm" /\ e.call = "extraction"

IsValidationLog(e) == e.op = "log" /\ e.label = "validation"

Extractions == SelectSeq(events, IsExtraction)

ValidationLogs == SelectSeq(events, IsValidationLog)

\* the Extraction Oracle was called and answered
ExtractionAnswered ==
    LET calls == Extractions
    IN  Len(calls) = 1 /\ ~calls[1].reply.raises

\* the mapping the turn received from the Extraction Oracle
Extracted ==
    LET calls == Extractions
    IN  IF Len(calls) = 1 /\ ~calls[1].reply.raises /\ calls[1].reply.is_dict
        THEN calls[1].reply.dict
        ELSE EmptyDict

\* the schema fields for which the extraction result holds a non-empty value
Answered ==
    LET mapping == Extracted
    IN  {i \in 1..Len(Before.fields) :
            /\ Before.fields[i].name \in DOMAIN mapping
            /\ Len(mapping[Before.fields[i].name][1]) > 0}

\* COLLECTING: some field unsatisfied, no confirmation requested
Collecting(state) ==
    /\ ~AllSatisfied(state.fields)
    /\ ~state.confirmation_requested /\ ~state.confirmed /\ ~state.completed

\* the review text lists every field's question and value
IsReviewSummary(t, fields) ==
    /\ t.lit = "Please review the collected information below. If everything is correct, reply 'yes' to confirm, or reply 'no' / indicate the field name with new value to modify.\n{summary}"
    /\ Len(t.summary) = Len(fields)
    /\ \A i \in 1..Len(fields) :
          /\ t.summary[i].question = fields[i].question
          /\ t.summary[i].value = fields[i].value

\* the text is the question of the field at current_field_index
IsQuestionOf(t, state) ==
    /\ t.lit = "{question}"
    /\ state.current_field_index < Len(state.fields)
    /\ t.question = state.fields[state.current_field_index + 1].question

\* C11: during collection, a field that already holds a non-empty value keeps
\* it whatever mapping the Extraction Oracle returns: only fields that were
\* unsatisfied before the turn change value.
C11_ExtractionKeepsKnownValues ==
    (Worked /\ Collecting(Before)) =>
        \A i \in 1..Len(Before.fields) :
            Satisfied(Before.fields[i]) => Now.fields[i].value = Before.fields[i].value

\* a turn applied at least one extracted value
Applied == Worked /\ Answered # {}

\* C13: a turn that applies at least one extracted value sets
\* confirmation_requested and emits the review summary exactly when the
\* recomputed index is the number of fields; otherwise it leaves
\* confirmation_requested false and emits the question of the field at the new
\* index; either way completed stays false and the state is persisted.
C13_AppliedTurnAsksOrReviews ==
    Applied =>
        /\ Returned
        /\ Len(Texts) = 1
        /\ IF Now.current_field_index = Len(Now.fields)
           THEN Now.confirmation_requested /\ IsReviewSummary(Texts[1], Now.fields)
           ELSE ~Now.confirmation_requested /\ IsQuestionOf(Texts[1], Now)
        /\ ~Now.completed
        /\ StoreWrites # <<>>
        /\ LoadedState(storage) = Some(Now)

\* the first field was answered alone and the second question is asked
C13_Witness ==
    /\ Applied /\ Answered = {1}
    /\ Len(Now.fields) >= 2
    /\ Now.current_field_index = 1 /\ ~Now.confirmation_requested
    /\ Len(Texts) = 1 /\ Texts[1].question = Now.fields[2].question

\* the unsatisfied fields the extraction result sets to the refusal sentinel
Refused ==
    LET mapping == Extracted
    IN  {i \in 1..Len(Before.fields) :
            /\ ~Satisfied(Before.fields[i])
            /\ Before.fields[i].name \in DOMAIN mapping
            /\ mapping[Before.fields[i].name] = Some(REFUSED)}

\* C14: a field that extraction sets to "refused" counts as satisfied: the
\* index moves past it to the first field still unsatisfied, and when that
\* leaves no field unsatisfied the review is requested, as for any answer.
C14_RefusalCountsAsSatisfied ==
    (Worked /\ Refused # {}) =>
        /\ Returned
        /\ \A i \in Refused :
              /\ Now.fields[i].value = Some(REFUSED)
              /\ Satisfied(Now.fields[i])
              /\ Now.current_field_index # i - 1
        /\ Now.current_field_index = FirstUnsatisfied(Now.fields)
        /\ AllSatisfied(Now.fields) =>
              /\ Now.confirmation_requested
              /\ Len(Texts) = 1 /\ IsReviewSummary(Texts[1], Now.fields)

\* the current field, the last one open, was refused and the review is shown
C14_Witness ==
    /\ Worked /\ Returned /\ Refused # {}
    /\ Before.current_field_index + 1 \in Refused
    /\ Now.current_field_index > Before.current_field_index
    /\ \E i \in 1..Len(Now.fields) : Now.fields[i].value = Some(REFUSED)
    /\ AllSatisfied(Now.fields) /\ Now.confirmation_requested

\* C15: while collecting, an empty or whitespace-only utterance outputs the
\* current field's question verbatim, calls neither oracle and changes no
\* field value, index or flag (nor the stored record).
C15_EmptyUtteranceRepeatsQuestion ==
    (Worked /\ Collecting(Before) /\ strip(query) = <<>>) =>
        /\ Returned
        /\ Now = Before
        /\ Len(Texts) = 1 /\ IsQuestionOf(Texts[1], Before)
        /\ Before.current_field_index = FirstUnsatisfied(Before.fields)
        /\ OracleCalls = <<>>
        /\ StoreWrites = <<>> /\ storage = stored_before

\* a blank utterance met a conversation whose first field is answered
C15_Witness ==
    /\ Worked /\ Returned /\ Collecting(Before) /\ query = Q_BLANK
    /\ Before.current_field_index = 1
    /\ Len(Texts) = 1 /\ Texts[1].question = Before.fields[2].question

\* no field is satisfied yet: the first turn of a conversation
FirstTurn == Worked /\ \A i \in 1..Len(Before.fields) : ~Satisfied(Before.fields[i])

\* "expressing intent", the reason C16 names
EXPRESSING_INTENT == <<"e", "x", "p", "r", "e", "s", "s", "i", "n", "g", " ", "i", "n", "t",
        "e", "n", "t">>

\* C16: on a turn where no field is satisfied yet and the utterance matches an
\* intent-expression pattern, the validation result is invalid with a reason
\* of "expressing intent", whatever the Understanding Oracle returned.
C16_IntentOverridesOracle ==
    (FirstTurn /\ Len(OracleCalls) >= 1 /\ OracleCalls[1].content # None
            /\ ExpressesIntent(query)) =>
        /\ Len(ValidationLogs) = 1
        /\ ~ValidationLogs[1].is_valid
        /\ startswith(ValidationLogs[1].response, INVALID_PREFIX)
        /\ contains(ReasonOf(ValidationLogs[1].response), EXPRESSING_INTENT)

\* the oracle accepted "I want to be contacted" as an answer, and was overridden
C16_Witness ==
    /\ FirstTurn /\ query = Q_INTENT
    /\ Len(OracleCalls) >= 1 /\ OracleCalls[1].content = Some(V_VALID)
    /\ Len(ValidationLogs) = 1 /\ ~ValidationLogs[1].is_valid

\* the soft redirect of tod.py:542, with the first field's question
IsSoftRedirect(t, fields) ==
    /\ t.lit = "I understand you want to be contacted. To help you better, {question}"
    /\ t.question = fields[1].question

\* a first turn on which the intent override fired and both oracles answered
OverrideFired ==
    /\ FirstTurn /\ Len(Before.fields) > 0
    /\ ExtractionAnswered
    /\ Len(ValidationLogs) = 1
    /\ ExpressesIntent(query)

\* C17 as stated: on a first turn where the intent override fires, no field is
\* updated and the output is the soft redirect into the first question.
C17_OverrideNeverUpdates ==
    OverrideFired =>
        /\ Returned
        /\ Now.fields = Before.fields
        /\ Len(Texts) = 1 /\ IsSoftRedirect(Texts[1], Before.fields)

\* C17, amended: on a first turn where the intent override fires and the
\* extraction result holds no non-empty value for a schema field, no field is
\* updated and the output is the soft redirect into the first question.
C17_OverrideRedirectsWhenNothingExtracted ==
    (OverrideFired /\ Answered = {}) =>
        /\ Returned
        /\ Now = Before
        /\ Len(Texts) = 1 /\ IsSoftRedirect(Texts[1], Before.fields)

\* "I want to be contacted" opened the conversation and nothing was extracted
C17_Witness ==
    /\ OverrideFired /\ Answered = {} /\ query = Q_INTENT
    /\ Extractions[1].reply.is_dict
    /\ Len(Texts) = 1
    /\ Texts[1].question = "What is your name?"

\* the texts tod.py:537-555 phrases a re-prompt with
RepromptTexts ==
    {"I understand you want to be contacted. To help you better, {question}",
     "Hello! {question}",
     "{reason}, please provide {question}",
     "To get started, {question}",
     "{reason}, {question}",
     "I didn't catch that clearly. {question}"}

\* the turn's validation was invalid with a greeting reason
GreetingReason ==
    /\ Len(ValidationLogs) = 1
    /\ ~ValidationLogs[1].is_valid
    /\ contains(ReasonOf(ValidationLogs[1].response), R_GREETING)

\* C18: when a collecting turn's extraction result holds no non-empty value
\* for any schema field, every field value, the index and all flags are
\* unchanged and the output is a re-prompt with the current field's question;
\* for a greeting reason on the first turn it is "Hello! <question>".
C18_NothingExtractedReprompts ==
    (Worked /\ Collecting(Before) /\ ExtractionAnswered /\ Answered = {}) =>
        /\ Returned
        /\ Now = Before
        /\ Len(Texts) = 1
        /\ Texts[1].lit \in RepromptTexts
        /\ Texts[1].question = Before.fields[Before.current_field_index + 1].question
        /\ (FirstTurn /\ GreetingReason) => Texts[1].lit = "Hello! {question}"

\* "Hello" opened the conversation and was classified as a greeting
C18_Witness ==
    /\ FirstTurn /\ Collecting(Before) /\ query = Q_HELLO
    /\ ExtractionAnswered /\ Answered = {}
    /\ GreetingReason
    /\ Len(Texts) = 1 /\ Texts[1].lit = "Hello! {question}"
    /\ Texts[1].question = "What is your name?"

\* the turn finalized the conversation
Finalizing == Worked /\ CollectedDataMessages # <<>>

\* the turn began on a strategy object without a state and loaded the record
Reloaded ==
    /\ events # <<>> /\ events[1].op = "get"
    /\ LoadedState(stored_before) # None

\* C19: at finalization the collected-data mapping emitted to the caller has
\* exactly one entry per schema field, the field's final value under its name,
\* for a state built in memory as well as for one reloaded from the store.
C19_CollectedDataIsComplete ==
    Finalizing =>
        /\ Len(CollectedDataMessages) = 1
        /\ Now.completed
        /\ IsCollectedDataOf(CollectedDataMessages[1].mapping, Now.fields)
        /\ collected_data = CollectedDataMessages[1].mapping

\* the confirming turn reloaded a record in which one field was refused
C19_Witness ==
    /\ Finalizing /\ Reloaded
    /\ Len(Now.fields) >= 2
    /\ Now.fields[1].value = Some(REFUSED)
    /\ Now.fields[2].value = Some(A_JOHN)
    /\ DOMAIN CollectedDataMessages[1].mapping = {Now.fields[1].name, Now.fields[2].name}

\* C20: with store writes succeeding, after every turn that changed the
\* dialogue state without completing it the stored record equals the state in
\* memory (fields, index, the three flags), so that a controller resumed from
\* the store continues from the same state.
C20_StoredStateFollowsMemory ==
    (Worked /\ Now # Before /\ ~Now.completed) =>
        /\ LoadedState(storage) = Some(Now)
        /\ Resume(None, storage, GoodSchema) = dialogue_state
        /\ LoadedCollected(storage, EmptyDict) = collected_data

\* a denial changed the state and the stored record followed
C20_Witness ==
    /\ Worked /\ Now # Before /\ ~Now.completed
    /\ AfterDenial(Now) /\ Before.confirmation_requested
    /\ storage # stored_before
    /\ LoadedState(storage) = Some(Now)

\* the first field after position k that is unsatisfied, 0 when there is none
NextOpen(fields, k) ==
    LET later == {j \in (k + 1)..Len(fields) : ~Satisfied(fields[j])}
    IN  IF later = {} THEN 0 ELSE CHOOSE j \in later : \A i \in later : j <= i

\* the extraction result holds non-empty values for the current field and
\* for the next unsatisfied field
TwoAnswered ==
    /\ Worked /\ Collecting(Before)
    /\ Before.current_field_index < Len(Before.fields)
    /\ NextOpen(Before.fields, Before.current_field_index + 1) # 0
    /\ Before.current_field_index + 1 \in Answered
    /\ NextOpen(Before.fields, Before.current_field_index + 1) \in Answered

\* both values are in place and the output follows the new index
BothAppliedAndAsked ==
    /\ Returned
    /\ \A i \in {Before.current_field_index + 1,
                 NextOpen(Before.fields, Before.current_field_index + 1)} :
          Now.fields[i].value = Extracted[Before.fields[i].name]
    /\ Len(Texts) = 1
    /\ IF Now.current_field_index = Len(Now.fields)
       THEN IsReviewSummary(Texts[1], Now.fields)
       ELSE IsQuestionOf(Texts[1], Now)

\* C12 as stated: a turn whose extraction result holds non-empty values for
\* the current field and the next unsatisfied field (here: for these two and
\* no other) applies both and advances current_field_index by two, or to the
\* number of fields; the output is the question of the new first unsatisfied
\* field or the confirmation summary.
C12_TwoAnswersAdvanceByTwo ==
    (TwoAnswered /\ Cardinality(Answered) = 2) =>
        /\ BothAppliedAndAsked
        /\ Now.current_field_index \in {Before.current_field_index + 2, Len(Now.fields)}

\* C12, amended: such a turn applies both values and advances
\* current_field_index past both, to the first field still unsatisfied (at
\* least two further) or to the number of fields; the output is the question
\* of the new first unsatisfied field or the confirmation summary.
C12_TwoAnswersAdvancePastBoth ==
    TwoAnswered =>
        /\ BothAppliedAndAsked
        /\ Now.current_field_index = FirstUnsatisfied(Now.fields)
        /\ Now.current_field_index >= Before.current_field_index + 2
        /\ Now.current_field_index >=
              NextOpen(Before.fields, Before.current_field_index + 1)

\* the first two of four fields were answered in one turn and the third is asked
C12_Witness ==
    /\ TwoAnswered /\ Returned
    /\ Len(Now.fields) = 4
    /\ Before.current_field_index = 0 /\ Answered = {1, 2}
    /\ Now.current_field_index = 2
    /\ Len(Texts) = 1 /\ Texts[1].question = Now.fields[3].question

\* ------------------------------------------------ claims on failures
\* the turn found no state in memory and read the store
ReadStore == TurnEnded /\ events # <<>> /\ events[1].op = "get"

\* the store held no record, or bytes that do not deserialize
NothingLoadable == stored_before = None \/ ~stored_before[1].json

\* the turn handed a schema to _init_dialogue_state
Initialized == Len(events) >= 2 /\ events[2].op = "init"

InitSchema == events[2].schema

\* every value absent, index 0, all three flags false
Fresh(state) ==
    /\ \A i \in 1..Len(state.fields) : state.fields[i].value = None
    /\ state.current_field_index = 0
    /\ ~state.completed /\ ~state.confirmation_requested /\ ~state.confirmed

\* the fields are the schema's, in the schema's order
BuiltFrom(state, schema) ==
    /\ Len(state.fields) = Len(schema.fields)
    /\ \A i \in 1..Len(schema.fields) :
          /\ state.fields[i].name = schema.fields[i].name
          /\ state.fields[i].question = schema.fields[i].question

\* C21: when the store holds no record, or one that does not deserialize, the
\* load yields nothing and raises nothing: the turn initializes a state from
\* the schema (all values absent, index 0, flags false) and goes on to the
\* first question with it.
C21_UnreadableRecordStartsAfresh ==
    (ReadStore /\ NothingLoadable) =>
        /\ Initialized
        /\ InitSchema.wellformed =>
              /\ outcome # "ValueError"
              /\ start # None /\ Fresh(Before) /\ BuiltFrom(Before, InitSchema)
              /\ Len(InitSchema.fields) > 0 => Len(events) >= 3

\* bytes that do not deserialize were in the store and the first question is asked
C21_Witness ==
    /\ ReadStore /\ stored_before # None /\ ~stored_before[1].json
    /\ Initialized /\ InitSchema.wellformed
    /\ Returned /\ Worked /\ Fresh(Before)
    /\ Len(Texts) = 1 /\ IsQuestionOf(Texts[1], Before)

\* C24: when no state exists in memory or in the store and the schema is
\* malformed, the turn ends with the initialization failure, before any oracle
\* call, any message to the user and any write to the store.
C24_MalformedSchemaAborts ==
    (ReadStore /\ NothingLoadable /\ Initialized /\ ~InitSchema.wellformed) =>
        /\ outcome = "ValueError"
        /\ dialogue_state = None
        /\ Len(events) = 2
        /\ OracleCalls = <<>> /\ Texts = <<>>
        /\ StoreWrites = <<>> /\ StoreDeletes = <<>>
        /\ storage = stored_before

\* a turn with a non-empty utterance met a malformed schema
C24_Witness ==
    /\ ReadStore /\ NothingLoadable /\ Initialized /\ ~InitSchema.wellformed
    /\ query # <<>>
    /\ outcome = "ValueError"

\* an oracle call of the turn failed
FailedCall(e) ==
    /\ e.op = "llm"
    /\ \/ e.call = "validation" /\ e.content = None
       \/ e.call = "extraction" /\ e.reply.raises

OracleFailed == \E i \in 1..Len(events) : FailedCall(events[i])

\* C23: when a call of the Understanding Oracle or of the Extraction Oracle
\* fails, the turn ends with that failure and is not answered as an invalid
\* reply would be: the failed call is the last thing the turn did, no oracle
\* was called twice, nothing was said to the user, and the field values, the
\* index, the flags and the stored record are what they were before the turn.
C23_OracleFailureLeavesStateAlone ==
    (TurnEnded /\ OracleFailed) =>
        /\ outcome = "OracleError"
        /\ FailedCall(events[Len(events)])
        /\ LET calls == OracleCalls
           IN  /\ Len(calls) <= 2
               /\ Len(calls) = 2 => calls[1].call # calls[2].call
        /\ Texts = <<>>
        /\ Worked /\ Now = Before
        /\ StoreWrites = <<>> /\ StoreDeletes = <<>>
        /\ storage = stored_before

\* the extraction call failed after an accepted validation, on a conversation
\* that had a field collected and a record in the store
C23_Witness ==
    /\ Worked /\ OracleFailed
    /\ Len(OracleCalls) = 2 /\ OracleCalls[1].content # None
    /\ AnyValue(Before.fields)
    /\ stored_before # None /\ stored_before[1].json
    /\ outcome = "OracleError"

\* the validation call failed
C23_ValidationWitness ==
    /\ Worked /\ OracleFailed
    /\ Len(OracleCalls) = 1
    /\ outcome = "OracleError"

\* a write of the turn was refused by the store
WriteFailed == \E i \in 1..Len(events) : IsSet(events[i]) /\ ~events[i].ok

\* self.collected_data as it stands with a state in memory: the values held
CollectedOf(state) ==
    LET known == {i \in 1..Len(state.fields) : state.fields[i].value # None}
    IN  [n \in {state.fields[i].name : i \in known} |->
            state.fields[CHOOSE i \in known : state.fields[i].name = n].value]

\* the same call of _invoke, on the same object, store, utterance, schema and
\* oracle replies, with a store that accepts every write
SameTurnStoreUp ==
    LET calls == OracleCalls
        v == IF Len(calls) >= 1 THEN calls[1].content ELSE NoValidation
        x == IF Len(calls) >= 2 THEN calls[2].reply ELSE NoExtraction
    IN  Invoke(IF ReadStore THEN None ELSE start,
               IF ReadStore THEN EmptyDict ELSE CollectedOf(Before),
               stored_before, query,
               IF ReadStore /\ Initialized THEN InitSchema ELSE GoodSchema,
               v, x, TRUE)

\* what the turn yielded and asked for, leaving aside whether a write took
SameButWrites(es, fs) ==
    /\ Len(es) = Len(fs)
    /\ \A i \in 1..Len(es) :
          IF IsSet(es[i]) THEN IsSet(fs[i]) /\ es[i].bytes = fs[i].bytes
          ELSE es[i] = fs[i]

\* C22: a turn in which a write to the store fails is not aborted: it returns,
\* and what it says to the user and the state it leaves in memory are those of
\* the same turn with the write succeeding.
C22_FailedSaveIsSilent ==
    (TurnEnded /\ WriteFailed) =>
        /\ Returned
        /\ LET up == SameTurnStoreUp
           IN  /\ up.outcome = outcome
               /\ up.ds = dialogue_state
               /\ up.cd = collected_data
               /\ SameButWrites(events, up.events)

\* the write that follows a newly collected answer failed, and the next
\* question was asked from the advanced state
C22_Witness ==
    /\ Worked /\ WriteFailed /\ Returned
    /\ Now.current_field_index > Before.current_field_index
    /\ Len(Texts) = 1 /\ IsQuestionOf(Texts[1], Now)
    /\ storage = stored_before

\* ------------------------------------------------ claims on the oracle calls
\* the Understanding Oracle was called and answered
ValidationAnswered ==
    LET calls == OracleCalls
    IN  Len(calls) >= 1 /\ calls[1].call = "validation" /\ calls[1].content # None

\* the position in the turn of the first event that is p
FirstAt(p(_)) ==
    IF \E i \in 1..Len(events) : p(events[i])
    THEN CHOOSE i \in 1..Len(events) : p(events[i]) /\ \A j \in 1..(i - 1) : ~p(events[j])
    ELSE 0

\* two calls: the validation, finished and logged, then the extraction
ValidationThenExtraction ==
    LET calls == OracleCalls
    IN  /\ Len(calls) = 2
        /\ calls[1].call = "validation" /\ calls[2].call = "extraction"
        /\ FirstAt(IsValidationLog) # 0
        /\ FirstAt(IsValidationLog) < FirstAt(IsExtraction)

\* C25 as stated: every turn makes at most two oracle calls, and a collecting
\* turn with a non-empty utterance (whose validation call is answered) makes
\* exactly two, the validation first and the extraction after it, also when the
\* utterance was judged invalid.
C25_NonEmptyUtteranceCallsBoth ==
    TurnEnded =>
        /\ Len(OracleCalls) <= 2
        /\ (Worked /\ Collecting(Before) /\ query # <<>> /\ outcome # "OracleError")
              => ValidationThenExtraction

\* C25, amended: every turn makes at most two oracle calls, and a collecting
\* turn with an utterance that is not empty once trimmed, whose validation call
\* is answered, makes exactly two, the validation first and the extraction
\* after it, also when the utterance was judged invalid.
C25_NonBlankUtteranceCallsBoth ==
    TurnEnded =>
        /\ Len(OracleCalls) <= 2
        /\ (Worked /\ Collecting(Before) /\ strip(query) # <<>>)
              => \/ ValidationThenExtraction
                 \/ Len(OracleCalls) = 1 /\ ~ValidationAnswered
                       /\ outcome = "OracleError"

\* the utterance was judged invalid and the extraction was called after that
C25_Witness ==
    /\ Worked /\ Collecting(Before) /\ strip(query) # <<>>
    /\ ValidationThenExtraction
    /\ ~ValidationLogs[1].is_valid
    /\ Returned

\* one (question, answer) pair per satisfied field, in schema order
SatisfiedHistory(fields) ==
    LET held == SelectSeq(fields, Satisfied)
    IN  [i \in 1..Len(held) |-> [question |-> held[i].question, value |-> held[i].value]]

\* C26: the history handed to the Understanding Oracle holds, in schema order,
\* one (question, answer) pair for every field that was satisfied when the
\* turn began, fields after current_field_index included.
C26_HistoryCoversSatisfiedFields ==
    (Worked /\ OracleCalls # <<>> /\ OracleCalls[1].call = "validation")
        => OracleCalls[1].history = SatisfiedHistory(Before.fields)

\* ------------------------------------------- claims on the confirmation
\* the trimmed, lower-cased utterance is a marker, or a marker and a space
\* and more
Marked(u, markers) ==
    LET t == lower(strip(u))
    IN  \E m \in markers :
            \/ t = m
            \/ Len(t) > Len(m) /\ SubSeq(t, 1, Len(m) + 1) = Append(m, " ")

\* utterances built to fall under both marker sets if any can: every marker,
\* and every marker followed by a marker of the other set
MarkerUtterances ==
    positive_markers \cup negative_markers
    \cup {p \o <<" ">> \o n : p \in positive_markers, n \in negative_markers}
    \cup {n \o <<" ">> \o p : p \in positive_markers, n \in negative_markers}

\* no utterance is read as yes and as no, whichever set is tried first
MarkersExclusive ==
    \A u \in Queries \cup MarkerUtterances : ~(IsPositive(u) /\ IsNegative(u))

\* C27: a reply to the review is read from its trimmed, lower-cased text alone:
\* as yes iff it is a positive marker or begins with one and a space, as no
\* iff the same holds of a negative marker, as neither otherwise; no utterance
\* is both, so the order of the two tests does not matter.
C27_ReplyIsReadByMarkers ==
    (Worked /\ AwaitingConfirmation(Before)) =>
        /\ MarkersExclusive
        /\ ~(Marked(query, positive_markers) /\ Marked(query, negative_markers))
        /\ Marked(query, positive_markers) <=> Now.confirmed
        /\ Marked(query, negative_markers) <=> ~Now.confirmation_requested
        /\ (~Marked(query, positive_markers) /\ ~Marked(query, negative_markers))
              => /\ Now = Before
                 /\ Len(Texts) = 1
                 /\ Texts[1].lit = "Please confirm if the collected information is correct (yes/no)."

\* "ok thanks" was read as yes, "yesterday" would not have been
C27_Witness ==
    /\ Worked /\ AwaitingConfirmation(Before)
    /\ query = Q_OK_THANKS
    /\ Now.confirmed /\ Now.completed
    /\ ~Marked(Q_YESTERDAY, positive_markers)

\* a record of the store, read as a dialogue state
Stored == Parse(storage[1])

\* C28: at the end of every turn, confirmation_requested = true means every
\* field is satisfied and current_field_index is the number of fields, in the
\* state in memory and in the record the turn left in the store; the flag is
\* never set while a field is unsatisfied.
C28_ReviewOnlyWhenAllSatisfied ==
    TurnEnded =>
        /\ (dialogue_state # None /\ Now.confirmation_requested) =>
              /\ AllSatisfied(Now.fields)
              /\ Now.current_field_index = Len(Now.fields)
        /\ (storage # None /\ storage[1].json /\ Stored.confirmation_requested) =>
              /\ AllSatisfied(Stored.fields)
              /\ Stored.current_field_index = Len(Stored.fields)
        /\ \A i \in 1..Len(events) :
              (IsSet(events[i]) /\ events[i].bytes.confirmation_requested) =>
                  AllSatisfied(Parse(events[i].bytes).fields)

\* the turn that collected the last field set the flag, the first field
\* having been collected in an earlier turn
C28_Witness ==
    /\ Worked /\ Returned
    /\ ~Before.confirmation_requested /\ Now.confirmation_requested
    /\ AnyValue(Before.fields) /\ ~AllSatisfied(Before.fields)
    /\ AllSatisfied(Now.fields)
    /\ Now.current_field_index = Len(Now.fields)

\* a write of the turn carried a record with confirmed = true
WroteConfirmed ==
    \E i \in 1..Len(events) : IsSet(events[i]) /\ events[i].bytes.confirmed

\* C29: the confirmation and the finalization happen in the same turn: no
\* turn ends with confirmed = true and completed = false, and no record with
\* confirmed = true is written to the store.
C29_ConfirmedMeansCompleted ==
    TurnEnded =>
        /\ dialogue_state # None => (Now.confirmed => Now.completed)
        /\ ~WroteConfirmed
        /\ (storage # None /\ storage[1].json) => ~Stored.confirmed

\* "yes" to the review: confirmed and completed were set in one turn, which
\* wrote nothing and deleted the record
C29_Witness ==
    /\ Worked /\ Returned
    /\ AwaitingConfirmation(Before) /\ ~Before.completed
    /\ Now.confirmed /\ Now.completed
    /\ StoreWrites = <<>> /\ StoreDeletes # <<>>
    /\ storage = None

\* C30: of every single write to the store: a record that shows every field
\* satisfied with confirmation_requested = false was written by the branch
\* that handles a negative reply to the review; the turn that satisfies the
\* last field writes no such record, not even between its writes.
C30_UnreviewedFullRecordOnlyAfterDenial ==
    TurnEnded =>
        \A i \in 1..Len(events) :
            (/\ IsSet(events[i]) /\ events[i].ok
             /\ Len(events[i].bytes.fields) > 0
             /\ AllSatisfied(Parse(events[i].bytes).fields)
             /\ ~events[i].bytes.confirmation_requested)
                => /\ Worked /\ AwaitingConfirmation(Before)
                   /\ Marked(query, negative_markers)

\* ------------------------------------------------ claims on termination
\* the state the next turn works from: the one in memory, else the stored
\* record, else a new one
Current == Resume(dialogue_state, storage, GoodSchema)[1]

\* the conversation is closed: the state in memory is completed and the store
\* holds no record
Closed == dialogue_state # None /\ Now.completed /\ storage = None

\* the turn's extraction result held a non-empty value for field i, which was
\* unsatisfied
AnswerGiven(i) == Worked /\ ~Satisfied(Before.fields[i]) /\ i \in Answered

\* the turn answered the pending review with a positive marker
PositiveGiven == Worked /\ AwaitingConfirmation(Before) /\ Marked(query, positive_markers)

\* the Extraction Oracle does not withhold a value for an open field for ever
OracleCooperates ==
    \A i \in 1..NumFields : []<>(Satisfied(Current.fields[i]) \/ AnswerGiven(i))

\* the user does not withhold the positive reply to a pending review for ever
UserCooperates == []<>(~AwaitingConfirmation(Current) \/ PositiveGiven)

\* C31: in a cooperative setting (both oracles answer, the Extraction Oracle
\* in the end gives a value for every open field, the user never answers the
\* review negatively and in the end answers it positively), every conversation
\* over a schema with fields reaches completed = true with its stored record
\* deleted.
C31_ConversationCloses ==
    (OracleCooperates /\ UserCooperates) => (~Closed ~> Closed)

\* the positive reply closed a conversation whose record was in the store,
\* every field having been answered by the Extraction Oracle
C31_Witness ==
    /\ Worked /\ CompletedNow /\ PositiveGiven
    /\ Len(Now.fields) = NumFields /\ NumFields > 0
    /\ stored_before # None /\ stored_before[1].json
    /\ StoreDeletes # <<>>
    /\ Closed

====
